---- MODULE Spec2Model ----
(***************************************************************************)
(* State-machine model of the education-centre backend: the payment ledger *)
(* (routers/payments.py), the attendance log (routers/attendance.py), the  *)
(* payroll engine (routers/payroll.py), the accounts (routers/auth.py,     *)
(* routers/users.py, routers/students.py) and the groups                   *)
(* (routers/groups.py) over the tables of routers/models.py.               *)
(*                                                                         *)
(* Money is counted in thousandths of the currency unit, so that           *)
(* round(x, 2) is a real operation (Round2).  Months are small integers    *)
(* standing for well-formed "YYYY-MM" strings; their integer order is the  *)
(* lexicographic order of the strings.  A timestamp is the month it falls  *)
(* in.  None is 0 for ids and months and "" for strings.                   *)
(*                                                                         *)
(* The tables are those the routers read and write: the columns            *)
(* User.balance, User.created_at and Attendance.reason, which the routers  *)
(* use and routers/models.py does not declare, are columns of the rows.    *)
(* The database enforces the foreign keys models.py declares.  A query     *)
(* ending in .first() without ORDER BY may return any matching row.        *)
(*                                                                         *)
(* A request is one step, from its first query to its last commit.  Two    *)
(* requests served side by side are modelled in two steps each, the        *)
(* queries and the commit (inflight holds what a request read), and a      *)
(* request ended by an exception keeps what it committed before.           *)
(***************************************************************************)
EXTENDS Integers, Sequences, FiniteSets, TLC

\* ---------------------------------------------------------------- bounds
MaxPayments == 2
MaxPosted == 1
MaxAttendance == 2
MaxAmount == 30
MaxPayroll == 4
MaxPaid == 1
MaxUsers == 6

\* ------------------------------------------------------ program constants
LessonsCount == 12
DefaultTeacherPercent == 50
DefaultManagerActivePercent == 10
DefaultManagerNewPercent == 25

\* ------------------------------------------------------------- universes
None == 0
Months == {1, 2}
LessonDates == {<<2, 1>>}

StudentIds == {1, 2}
TeacherId == 3
ManagerId == 4
AdminId == 5
UserIds == StudentIds \cup {TeacherId, ManagerId, AdminId}
GroupIds == {1, 2}
MissingId == 9
Calls == {1, 2}
Amounts == {10, 20, 30}
Reasons == {"", "sababli", "sababsiz"}

VARIABLES
    today,            \* the month date.today() / datetime.utcnow() falls in
    users,            \* users table: id -> row
    groups,           \* groups table: id -> row
    group_students,   \* group_students table: set of <<group_id, student_id>>
    courses,          \* courses table: id -> row
    payments,         \* payments table: sequence of rows, id = position
    attendance,       \* attendance table: sequence of rows, id = position
    salary_settings,  \* salary_settings table: sequence of rows, id = position
    payroll,          \* payroll table: set of rows carrying their id
    next_payroll_id,  \* next primary key of the payroll table
    payroll_payments, \* payroll_payments table: sequence of rows
    inflight,         \* the requests being served side by side: what each has read
    resp              \* the response to the last request

vars == <<today, inflight, users, groups, group_students, courses, payments, attendance,
          salary_settings, payroll, next_payroll_id, payroll_payments, resp>>

\* ---------------------------------------------------------------- helpers
Max(a, b) == IF a >= b THEN a ELSE b

RECURSIVE SumOver(_, _)
SumOver(S, f) ==
    IF S = {} THEN 0
    ELSE LET x == CHOOSE y \in S : TRUE IN f[x] + SumOver(S \ {x}, f)

RECURSIVE SortedSeq(_)
SortedSeq(S) ==
    IF S = {} THEN <<>>
    ELSE LET x == CHOOSE y \in S : \A z \in S : y <= z
         IN <<x>> \o SortedSeq(S \ {x})

\* round(n/d, 2) on thousandths: the nearest multiple of 10, ties to even
RoundFrac2(n, d) ==
    LET k == n \div (10 * d)
        r == n % (10 * d)
    IN IF 2 * r < 10 * d THEN 10 * k
       ELSE IF 2 * r > 10 * d THEN 10 * (k + 1)
       ELSE IF k % 2 = 0 THEN 10 * k ELSE 10 * (k + 1)

Round2(x) == RoundFrac2(x, 1)

\* an HTTP response: the status code and, for an HTTPException, its detail
Response(code, detail) == [code |-> code, detail |-> detail]

\* get_current_user: the token names a user row; a request without a valid
\* token (caller None) is answered 401 before the handler runs
Authenticated(caller) == caller \in DOMAIN users

Unauthorized == Response(401, "Could not validate credentials")

\* group.course.price if getattr(group, "course", None) else 0
CoursePrice(g) ==
    IF groups[g].course_id = None THEN 0 ELSE courses[groups[g].course_id].price

IsStudent(u) == u \in DOMAIN users /\ users[u].role = "student"

\* db.query(User).filter(User.group_id == group.id, User.role == student)
StudentsOf(g) == {u \in DOMAIN users : users[u].role = "student" /\ users[u].group_id = g}

PaymentIds == 1..Len(payments)

\* payment rows of one (student, group, month)
PaymentsOf(s, g, m) ==
    {i \in PaymentIds : /\ payments[i].student_id = s
                        /\ payments[i].group_id = g
                        /\ payments[i].month = m}

\* ------------------------------------------------------------------- Init
\* the usernames of the rows the tables start with, one per user
InitUsername(u) ==
    IF u = 1 THEN "s1" ELSE IF u = 2 THEN "s2"
    ELSE IF u = TeacherId THEN "teacher"
    ELSE IF u = ManagerId THEN "manager" ELSE "admin"

InitUsers(g2) ==
    [u \in UserIds |->
        [role |-> IF u \in StudentIds THEN "student"
                  ELSE IF u = TeacherId THEN "teacher"
                  ELSE IF u = ManagerId THEN "manager" ELSE "admin",
         username |-> InitUsername(u),
         group_id |-> IF u = 1 THEN 1 ELSE IF u = 2 THEN g2 ELSE None,
         balance |-> 0,
         teacher_percent |-> None,
         created_at |-> 1]]

\* Student 1 is enrolled in group 1 (course 1, price 20); student 2 is in no
\* group; group 2 (course 2, price 30) has no students yet.
Init ==
    /\ today = 1
    /\ inflight = [c \in Calls |-> <<>>]
    /\ users = InitUsers(None)
    /\ courses = [c \in {1, 2} |-> [price |-> IF c = 1 THEN 20 ELSE 30]]
    /\ groups = [g \in GroupIds |-> [teacher_id |-> TeacherId, course_id |-> g]]
    /\ group_students = {}
    /\ payments = <<>>
    /\ attendance = <<>>
    /\ salary_settings = <<>>
    /\ payroll = {}
    /\ next_payroll_id = 1
    /\ payroll_payments = <<>>
    /\ resp = Response(0, "")

\* the tables no payment operation writes
UnchangedOthers ==
    UNCHANGED <<today, inflight, groups, group_students, courses, attendance, salary_settings,
                payroll, next_payroll_id, payroll_payments>>

\* ------------------------------------------------ payments.create_payment
\* the status without the branch for a payment that has no course price
CreateStatus_PricedOnly(amount, course_price) ==
    IF course_price > 0 /\ amount >= course_price THEN "paid"
    ELSE IF 0 < amount /\ amount < course_price THEN "partial"
    ELSE "unpaid"

\* status computed at payments.py:115-122
CreateStatus(amount, course_price) ==
    IF course_price > 0
    THEN IF amount >= course_price THEN "paid"
         ELSE IF 0 < amount /\ amount < course_price THEN "partial"
         ELSE "unpaid"
    ELSE IF amount > 0 THEN "paid" ELSE "unpaid"

\* the group the payment is booked on: the given one, else the student's
ResolveGroup(student_id, group_id) ==
    IF group_id # None THEN group_id
    ELSE IF users[student_id].group_id # None
            /\ users[student_id].group_id \in DOMAIN groups
         THEN users[student_id].group_id
         ELSE None

\* student.balance after the overpayment rule of payments.py:140-142
CreditedBalance(balance, amount, course_price) ==
    IF amount # 0 /\ course_price # 0 /\ amount > course_price
    THEN balance + (amount - course_price)
    ELSE balance

create_payment(caller, amount, student_id, group_id, month_in) ==
    LET fail(code, detail) ==
            /\ resp' = Response(code, detail)
            /\ UNCHANGED <<users, payments>>
    IN
    /\ Len(payments) < MaxPayments
    /\ UnchangedOthers
    /\ IF ~Authenticated(caller) THEN fail(Unauthorized.code, Unauthorized.detail)
       ELSE IF users[caller].role = "student"
       THEN fail(403, "Talabalar to'lov qo'sha olmaydi.")
       ELSE IF student_id = None THEN fail(400, "O'quvchi ID kiritilmadi.")
       ELSE IF ~IsStudent(student_id) THEN fail(404, "O'quvchi topilmadi.")
       ELSE IF group_id # None /\ group_id \notin DOMAIN groups
       THEN fail(404, "Guruh topilmadi.")
       ELSE
         LET g == ResolveGroup(student_id, group_id)
             month == IF month_in = None THEN today ELSE month_in
             course_price == IF g = None THEN 0 ELSE CoursePrice(g)
             row == [amount |-> amount,
                     student_id |-> student_id,
                     teacher_id |-> IF g = None THEN None ELSE groups[g].teacher_id,
                     group_id |-> g,
                     month |-> month,
                     status |-> CreateStatus(amount, course_price),
                     debt_amount |-> Max(course_price - amount, 0),
                     due_date |-> None,
                     created_at |-> today]
         IN /\ payments' = Append(payments, row)
            /\ users' = [users EXCEPT ![student_id].balance =
                            CreditedBalance(@, amount, course_price)]
            /\ resp' = Response(200, "")

\* --------------------------------------- payments.generate_monthly_debts
\* (student, group) pairs as the two nested loops visit them
EnrolledPairs == {p \in StudentIds \X GroupIds : p[1] \in StudentsOf(p[2])}

PairKey(p) == p[2] * 100 + p[1]

\* the pairs of S in loop order: groups by id, students by id
PairSeq(S) ==
    LET keys == SortedSeq({PairKey(p) : p \in S})
    IN [i \in 1..Len(keys) |-> CHOOSE p \in S : PairKey(p) = keys[i]]

GeneratedRow(s, g) ==
    [amount |-> 0,
     student_id |-> s,
     teacher_id |-> groups[g].teacher_id,
     group_id |-> g,
     month |-> today,
     status |-> IF CoursePrice(g) > 0 THEN "unpaid" ELSE "paid",
     debt_amount |-> CoursePrice(g),
     due_date |-> today,
     created_at |-> today]

generate_monthly_debts(caller) ==
    IF users[caller].role \notin {"manager", "admin"}
    THEN /\ resp' = Response(403, "Faqat manager yoki admin generatsiya qilishi mumkin.")
         /\ UNCHANGED <<users, payments>>
         /\ UnchangedOthers
    ELSE LET missing == {p \in EnrolledPairs : PaymentsOf(p[1], p[2], today) = {}}
             order == PairSeq(missing)
         IN /\ Len(payments) + Len(order) <= MaxPayments
            /\ payments' = payments \o
                   [i \in 1..Len(order) |-> GeneratedRow(order[i][1], order[i][2])]
            /\ resp' = Response(200, "")
            /\ UNCHANGED users
            /\ UnchangedOthers

\* ----------------------------------------- payments.mark_payment_as_paid
\* course price of the payment's group, 0 without group or course
PaymentCoursePrice(i) ==
    IF payments[i].group_id = None THEN 0 ELSE CoursePrice(payments[i].group_id)

MarkPaidRow(row, amount, course_price) ==
    LET total == row.amount + amount
        remaining == IF course_price # 0 THEN course_price - total ELSE 0
    IN IF remaining <= 0
       THEN [row EXCEPT !.amount = total, !.status = "paid", !.debt_amount = 0]
       ELSE [row EXCEPT !.amount = total, !.status = "partial",
                        !.debt_amount = remaining]

\* student.balance after the overpayment rule of payments.py:210-212
MarkPaidBalance(balance, total, course_price) ==
    IF course_price # 0 /\ total > course_price
    THEN balance + (total - course_price)
    ELSE balance

mark_payment_as_paid(caller, payment_id, amount) ==
    LET fail(code, detail) ==
            /\ resp' = Response(code, detail)
            /\ UNCHANGED <<users, payments>>
    IN
    /\ UnchangedOthers
    /\ IF users[caller].role \notin {"manager", "admin"}
       THEN fail(403, "Sizda ruxsat yo'q.")
       ELSE IF payment_id \notin PaymentIds THEN fail(404, "To'lov topilmadi.")
       ELSE
         LET course_price == PaymentCoursePrice(payment_id)
             row == MarkPaidRow(payments[payment_id], amount, course_price)
         IN /\ row.amount <= MaxAmount
            /\ payments' = [payments EXCEPT ![payment_id] = row]
            /\ users' = [users EXCEPT ![row.student_id].balance =
                            MarkPaidBalance(@, row.amount, course_price)]
            /\ resp' = Response(200, "")

\* ------------------------------------ payments.calculate_monthly_payments
\* attendance rows of the raw query at payments.py:338-345
AttendanceRows(s, g, month) ==
    {i \in 1..Len(attendance) : /\ attendance[i].student_id = s
                                /\ attendance[i].group_id = g
                                /\ attendance[i].date[1] = month}

Attended(s, g, month) ==
    Cardinality({i \in AttendanceRows(s, g, month) : attendance[i].status = "present"})

AbsentSababli(s, g, month) ==
    Cardinality({i \in AttendanceRows(s, g, month) :
                    attendance[i].status = "absent" /\ attendance[i].reason = "sababli"})

AbsentSababsiz(s, g, month) ==
    Cardinality({i \in AttendanceRows(s, g, month) :
                    attendance[i].status = "absent" /\ attendance[i].reason = "sababsiz"})

TotalLessons(s, g, month) ==
    Attended(s, g, month) + AbsentSababli(s, g, month) + AbsentSababsiz(s, g, month)

\* PrevUnpaid without the Payment.group_id filter
PrevUnpaid_AnyGroup(s, g, month) ==
    SumOver({i \in PaymentIds : /\ payments[i].student_id = s
                                /\ payments[i].month < month},
            [i \in PaymentIds |-> payments[i].debt_amount])

\* sum of debt_amount over the rows of (student, group) in earlier months
PrevUnpaid(s, g, month) ==
    SumOver({i \in PaymentIds : /\ payments[i].student_id = s
                                /\ payments[i].group_id = g
                                /\ payments[i].month < month},
            [i \in PaymentIds |-> payments[i].debt_amount])

\* MonthlyDue without the "no lessons that month" case
MonthlyDue_AlwaysFull(s, g, month) == Round2(CoursePrice(g))

MonthlyDue(s, g, month) ==
    IF TotalLessons(s, g, month) = 0 THEN 0 ELSE Round2(CoursePrice(g))

FinalDebt(s, g, month) == MonthlyDue(s, g, month) + PrevUnpaid(s, g, month)

\* ExistingStatus comparing the debt, not the amount, with the course price
ExistingStatus_ByDebt(final_debt, amount, course_price) ==
    IF final_debt <= 0 THEN "paid"
    ELSE IF amount # 0 /\ final_debt < course_price THEN "partial"
    ELSE "unpaid"

ExistingStatus(final_debt, amount, course_price) ==
    IF final_debt <= 0 THEN "paid"
    ELSE IF amount # 0 /\ amount < course_price THEN "partial"
    ELSE "unpaid"

NewStatus(final_debt) == IF final_debt > 0 THEN "unpaid" ELSE "paid"

CalculatedRow(s, g, month) ==
    LET final_debt == FinalDebt(s, g, month)
    IN [amount |-> 0,
        student_id |-> s,
        teacher_id |-> groups[g].teacher_id,
        group_id |-> g,
        month |-> month,
        status |-> NewStatus(final_debt),
        debt_amount |-> final_debt,
        due_date |-> today,
        created_at |-> today]

\* the pairs the loops reach: groups with a positive price, their students
BilledPairs ==
    {p \in EnrolledPairs : ~(CoursePrice(p[2]) <= 0 \/ LessonsCount <= 0)}

\* .first() has no ORDER BY: with several rows of one (student, group, month)
\* any of them may be the one returned; 0 stands for no row
FirstChoices(month) ==
    LET pairs == BilledPairs
    IN {f \in [pairs -> 0..Len(payments)] :
           \A p \in pairs :
               LET rows == PaymentsOf(p[1], p[2], month)
               IN IF rows = {} THEN f[p] = 0 ELSE f[p] \in rows}

\* the pairs whose row is created, in loop order
CalcCreated(existing) == PairSeq({p \in BilledPairs : existing[p] = 0})

\* the ids of the rows updated in place
CalcUpdated(existing) == {existing[p] : p \in BilledPairs} \ {0}

CalcUpdatedRow(existing, i, month) ==
    LET p == CHOOSE q \in BilledPairs : existing[q] = i
        final_debt == FinalDebt(p[1], p[2], month)
    IN [payments[i] EXCEPT
          !.debt_amount = final_debt,
          !.status = ExistingStatus(final_debt, payments[i].amount, CoursePrice(p[2]))]

\* the payments table the loops leave, given what each .first() returned
CalcTable(existing, month) ==
    LET updated == CalcUpdated(existing)
        created == CalcCreated(existing)
    IN [i \in PaymentIds |->
           IF i \in updated THEN CalcUpdatedRow(existing, i, month) ELSE payments[i]]
       \o [i \in 1..Len(created) |-> CalculatedRow(created[i][1], created[i][2], month)]

calculate_monthly_payments(caller, month_in) ==
    IF users[caller].role \notin {"manager", "admin"}
    THEN /\ resp' = Response(403, "Faqat manager yoki admin hisoblay oladi.")
         /\ UNCHANGED <<users, payments>>
         /\ UnchangedOthers
    ELSE LET month == IF month_in = None THEN today ELSE month_in
         IN \E existing \in FirstChoices(month) :
               /\ payments' = CalcTable(existing, month)
               /\ resp' = Response(200, "")
               /\ UNCHANGED users
               /\ UnchangedOthers

\* ------------------------------------------- attendance.create_attendance
RecordInputs ==
    [student_id : StudentIds \cup {MissingId}, is_present : BOOLEAN, reason : Reasons]

AttendanceEntry(caller, group_id, date, record) ==
    [student_id |-> record.student_id,
     teacher_id |-> caller,
     group_id |-> group_id,
     date |-> date,
     status |-> IF record.is_present THEN "present" ELSE "absent",
     reason |-> record.reason]

\* create_attendance without the check for an attendance of the group and date
AttendanceExists_Never(group_id, date) == FALSE

\* an attendance row of the group on the date exists (attendance.py:35-39)
AttendanceExists(group_id, date) ==
    \E i \in 1..Len(attendance) :
        attendance[i].group_id = group_id /\ attendance[i].date = date

create_attendance(caller, group_id, records, date) ==
    LET fail(code, detail) ==
            /\ resp' = Response(code, detail)
            /\ UNCHANGED attendance
        kept == SelectSeq(records, LAMBDA r : r.student_id \in DOMAIN users)
    IN
    /\ UNCHANGED <<today, inflight, users, groups, group_students, courses, payments,
                   salary_settings,
                   payroll, next_payroll_id, payroll_payments>>
    /\ IF ~Authenticated(caller) THEN fail(Unauthorized.code, Unauthorized.detail)
       ELSE IF users[caller].role \notin {"teacher", "admin", "manager"}
       THEN fail(403, "Not allowed to create attendance")
       ELSE IF group_id \notin DOMAIN groups THEN fail(404, "Group not found")
       ELSE IF AttendanceExists(group_id, date)
            THEN fail(400, "Attendance already exists")
       ELSE /\ Len(attendance) + Len(kept) <= MaxAttendance
            /\ attendance' = attendance \o
                  [i \in 1..Len(kept) |-> AttendanceEntry(caller, group_id, date, kept[i])]
            /\ resp' = Response(200, "")

\* ------------------------------------------------- payroll.parse_month
\* the month strings that parse: an integer year and a month of 1..12
ValidMonth(month) == month \in Months

\* ------------------------------------------------ payroll salary settings
SettingsRow(teacher_percent, manager_active_percent, manager_new_percent) ==
    [teacher_percent |-> teacher_percent,
     manager_active_percent |-> manager_active_percent,
     manager_new_percent |-> manager_new_percent]

\* SalarySetting() with the column defaults of models.py
DefaultSettings ==
    SettingsRow(DefaultTeacherPercent, DefaultManagerActivePercent,
                DefaultManagerNewPercent)

\* db.query(SalarySetting).order_by(SalarySetting.id.desc()).first()
HasSettings == Len(salary_settings) > 0
LatestSettings == salary_settings[Len(salary_settings)]

get_salary_settings ==
    /\ salary_settings' = IF HasSettings THEN salary_settings
                          ELSE <<SettingsRow(0, 0, 0)>>
    /\ resp' = Response(200, "")
    /\ UNCHANGED <<today, inflight, users, groups, group_students, courses, payments,
                   attendance,
                   payroll, next_payroll_id, payroll_payments>>

update_salary_settings(caller, payload) ==
    /\ IF ~Authenticated(caller)
       THEN /\ resp' = Unauthorized
            /\ UNCHANGED salary_settings
       ELSE IF users[caller].role # "admin"
       THEN /\ resp' = Response(403, "Only admin can update")
            /\ UNCHANGED salary_settings
       ELSE /\ salary_settings' =
                 IF HasSettings
                 THEN [salary_settings EXCEPT ![Len(salary_settings)] = payload]
                 ELSE <<payload>>
            /\ resp' = Response(200, "")
    /\ UNCHANGED <<today, inflight, users, groups, group_students, courses, payments,
                   attendance,
                   payroll, next_payroll_id, payroll_payments>>

\* ------------------------------------------------ payroll.calculate_payroll
TeacherUsers == {u \in DOMAIN users : users[u].role = "teacher"}
ManagerUsers == {u \in DOMAIN users : users[u].role = "manager"}

\* groups taught by teacher t
GroupsTaught(t) == {g \in DOMAIN groups : groups[g].teacher_id = t}

\* sum of Payment.amount over the groups' payments created within the month
PaymentsSum(group_ids, month) ==
    SumOver({i \in PaymentIds : /\ payments[i].group_id \in group_ids
                                /\ payments[i].created_at = month},
            [i \in PaymentIds |-> payments[i].amount])

\* counting every record of the groups as a present one
PresentCount_AnyStatus(group_ids, month) ==
    Cardinality({i \in 1..Len(attendance) :
                    /\ attendance[i].group_id \in group_ids
                    /\ attendance[i].date[1] = month})

PresentCount(group_ids, month) ==
    Cardinality({i \in 1..Len(attendance) :
                    /\ attendance[i].group_id \in group_ids
                    /\ attendance[i].status = "present"
                    /\ attendance[i].date[1] = month})

TotalCount(group_ids, month) ==
    Cardinality({i \in 1..Len(attendance) :
                    /\ attendance[i].group_id \in group_ids
                    /\ attendance[i].date[1] = month})

\* the teacher's row: earned, deductions and net are each rounded on their own
TeacherPayroll(t, month, settings, id) ==
    LET group_ids == GroupsTaught(t)
        payments_sum == PaymentsSum(group_ids, month)
        present == PresentCount(group_ids, month)
        total == TotalCount(group_ids, month)
        full == group_ids = {} \/ total = 0
        pct == settings.teacher_percent
    IN [id |-> id,
        user_id |-> t,
        role |-> "teacher",
        month |-> month,
        earned |-> RoundFrac2(payments_sum * pct, 100),
        deductions |-> IF full THEN 0
                       ELSE RoundFrac2(payments_sum * pct * (total - present),
                                       100 * total),
        net |-> IF full THEN RoundFrac2(payments_sum * pct, 100)
                ELSE RoundFrac2(payments_sum * pct * present, 100 * total),
        status |-> "pending",
        paid_at |-> None]

\* taking every student with a record within the month as an active one
ActiveStudents_AnyStatus(month) ==
    {attendance[i].student_id : i \in {j \in 1..Len(attendance) :
        attendance[j].date[1] = month}}

\* students with a present attendance record within the month
ActiveStudents(month) ==
    {attendance[i].student_id : i \in {j \in 1..Len(attendance) :
        attendance[j].status = "present" /\ attendance[j].date[1] = month}}

ActivePaymentsSum(month) ==
    SumOver({i \in PaymentIds : /\ payments[i].student_id \in ActiveStudents(month)
                                /\ payments[i].created_at = month},
            [i \in PaymentIds |-> payments[i].amount])

\* students whose row was created within the month
NewStudents(month) ==
    {u \in DOMAIN users : users[u].role = "student" /\ users[u].created_at = month}

\* the student's payments created within the month; the first of them is the
\* one with the least created_at, taken here as the least id
MonthPayments(u, month) ==
    {i \in PaymentIds : payments[i].student_id = u /\ payments[i].created_at = month}

FirstPaymentAmount(u, month) ==
    IF MonthPayments(u, month) = {} THEN 0
    ELSE payments[CHOOSE i \in MonthPayments(u, month) :
                     \A j \in MonthPayments(u, month) : i <= j].amount

NewStudentFirstPaymentsSum(month) ==
    SumOver(NewStudents(month), [u \in DOMAIN users |-> FirstPaymentAmount(u, month)])

ManagerPayroll(mgr, month, settings, id) ==
    LET earned == RoundFrac2(
            ActivePaymentsSum(month) * settings.manager_active_percent
              + NewStudentFirstPaymentsSum(month) * settings.manager_new_percent,
            100)
    IN [id |-> id,
        user_id |-> mgr,
        role |-> "manager",
        month |-> month,
        earned |-> earned,
        deductions |-> 0,
        net |-> earned,
        status |-> "pending",
        paid_at |-> None]

\* payroll rows a payroll_payments row refers to: the foreign key
\* payroll_payments.payroll_id forbids deleting them
\* a payroll_payments table without the foreign key: no row is ever held
ReferencedPayroll_None == {}

ReferencedPayroll ==
    {payroll_payments[i].payroll_id : i \in 1..Len(payroll_payments)}

\* calculate_payroll storing a zero row, as get_salary_settings does, while
\* it computes with the column defaults
SettingsAfter_Zero ==
    IF HasSettings THEN salary_settings ELSE <<SettingsRow(0, 0, 0)>>

\* the salary_settings table after payroll.py:98-103: a missing row is added
SettingsAfter == IF HasSettings THEN salary_settings ELSE <<DefaultSettings>>

\* the settings object the run computes with
PayrollSettings == IF HasSettings THEN LatestSettings ELSE DefaultSettings

\* calculate_payroll without the delete of the month's rows
ExistingPayroll_Kept(month) == {}

\* the rows of the month, deleted at payroll.py:106-109
ExistingPayroll(month) == {r \in payroll : r.month = month}

calculate_payroll(caller, month) ==
    LET settings_after == SettingsAfter
        settings == PayrollSettings
        existing == ExistingPayroll(month)
        teachers == SortedSeq(TeacherUsers)
        managers == SortedSeq(ManagerUsers)
        teacher_rows ==
            {TeacherPayroll(teachers[k], month, settings, next_payroll_id + k - 1)
                : k \in 1..Len(teachers)}
        manager_rows ==
            {ManagerPayroll(managers[k], month, settings,
                            next_payroll_id + Len(teachers) + k - 1)
                : k \in 1..Len(managers)}
        created == Len(teachers) + Len(managers)
    IN
    /\ UNCHANGED <<today, inflight, users, groups, group_students, courses, payments,
                   attendance,
                   payroll_payments>>
    /\ IF users[caller].role # "admin"
       THEN /\ resp' = Response(403, "Only admin can calculate payroll")
            /\ UNCHANGED <<salary_settings, payroll, next_payroll_id>>
       ELSE IF ~ValidMonth(month)
       THEN /\ resp' = Response(400, "month must be YYYY-MM")
            /\ UNCHANGED <<salary_settings, payroll, next_payroll_id>>
       ELSE IF \E r \in existing : r.id \in ReferencedPayroll
       THEN \* the commit of the deletes fails; the settings row is committed
            /\ salary_settings' = settings_after
            /\ resp' = Response(500, "Internal Server Error")
            /\ UNCHANGED <<payroll, next_payroll_id>>
       ELSE /\ next_payroll_id + created - 1 <= MaxPayroll
            /\ salary_settings' = settings_after
            /\ payroll' = (payroll \ existing) \cup teacher_rows \cup manager_rows
            /\ next_payroll_id' = next_payroll_id + created
            /\ resp' = Response(200, "")

\* calculate_payroll ended by an exception raised past one of its commits
\* (a failed query, a lost connection): what was committed before stays.
\* "settings": raised past the commit of the settings row (payroll.py:102);
\* "teachers": raised in the teachers' loop, past the commit of the deletes
\* (payroll.py:109); "managers": raised in the managers' loop, past the commit
\* of the teachers' rows (payroll.py:171).
InterruptPhases == {"settings", "teachers", "managers"}

calculate_payroll_interrupted(caller, month, phase) ==
    LET existing == ExistingPayroll(month)
        teachers == SortedSeq(TeacherUsers)
        teacher_rows ==
            {TeacherPayroll(teachers[k], month, PayrollSettings, next_payroll_id + k - 1)
                : k \in 1..Len(teachers)}
    IN
    /\ UNCHANGED <<today, inflight, users, groups, group_students, courses, payments,
                   attendance,
                   payroll_payments>>
    /\ users[caller].role = "admin"
    /\ ValidMonth(month)
    /\ ~ \E r \in existing : r.id \in ReferencedPayroll
    /\ salary_settings' = SettingsAfter
    /\ resp' = Response(500, "Internal Server Error")
    /\ IF phase = "settings"
       THEN UNCHANGED <<payroll, next_payroll_id>>
       ELSE IF phase = "teachers"
       THEN /\ payroll' = payroll \ existing
            /\ UNCHANGED next_payroll_id
       ELSE /\ next_payroll_id + Len(teachers) - 1 <= MaxPayroll
            /\ payroll' = (payroll \ existing) \cup teacher_rows
            /\ next_payroll_id' = next_payroll_id + Len(teachers)

\* ------------------------------------------------------ payroll.pay_salary
\* pay_salary without the "Already paid" check
AlreadyPaid_Unchecked(row) == FALSE

AlreadyPaid(row) == row.status = "paid"

pay_salary(caller, payroll_id, paid_amount) ==
    LET fail(code, detail) ==
            /\ resp' = Response(code, detail)
            /\ UNCHANGED <<payroll, payroll_payments>>
        rows == {r \in payroll : r.id = payroll_id}
    IN
    /\ UNCHANGED <<today, inflight, users, groups, group_students, courses, payments,
                   attendance,
                   salary_settings, next_payroll_id>>
    /\ IF users[caller].role # "admin" THEN fail(403, "Only admin can mark paid")
       ELSE IF rows = {} THEN fail(404, "Payroll not found")
       ELSE LET row == CHOOSE r \in rows : TRUE
            IN IF AlreadyPaid(row) THEN fail(400, "Already paid")
               ELSE /\ payroll' = (payroll \ {row}) \cup
                          {[row EXCEPT !.status = "paid", !.paid_at = today]}
                    /\ payroll_payments' = Append(payroll_payments,
                          [payroll_id |-> row.id,
                           paid_amount |-> paid_amount,
                           paid_by |-> caller,
                           paid_at |-> today])
                    /\ resp' = Response(200, "")

\* --------------------------------------------------------- specifications
\* the (student_id, group_id) bodies posted to create_payment
PaymentBodies ==
    {<<amount, 1, None>> : amount \in Amounts} \cup {<<10, 1, 2>>, <<10, 2, None>>}

\* the record lists posted to create_attendance
LessonRecords ==
    {<<[student_id |-> 1, is_present |-> TRUE, reason |-> ""]>>}
    \cup {<<[student_id |-> 1, is_present |-> FALSE, reason |-> r]>> : r \in Reasons}

\* the rows create_payment has added: the only rows without a due date
PostedRows == {i \in PaymentIds : payments[i].due_date = None}

CreatePayment ==
    /\ Cardinality(PostedRows) < MaxPosted
    /\ \E body \in PaymentBodies, month_in \in {None, 2} :
          create_payment(AdminId, body[1], body[2], body[3], month_in)

GenerateMonthlyDebts == generate_monthly_debts(AdminId)

MarkPaymentAsPaid ==
    \E payment_id \in PaymentIds, amount \in {10, 20} :
         mark_payment_as_paid(AdminId, payment_id, amount)

CalculateMonthlyPayments ==
    /\ \E month_in \in {None, 2} : calculate_monthly_payments(AdminId, month_in)
    /\ Len(payments') <= MaxPayments

CreateAttendance ==
    \E records \in LessonRecords, date \in LessonDates :
         create_attendance(TeacherId, 1, records, date)

Next ==
    \/ CreatePayment
    \/ GenerateMonthlyDebts
    \/ MarkPaymentAsPaid
    \/ CalculateMonthlyPayments
    \/ CreateAttendance

Spec == Init /\ [][Next]_vars

\* a payment record paid off in instalments of 5 and 10
InstalmentAmounts == {5, 10}

PayInstalment ==
    \E payment_id \in PaymentIds, amount \in InstalmentAmounts :
         mark_payment_as_paid(AdminId, payment_id, amount)

NextInstalments ==
    \/ GenerateMonthlyDebts
    \/ CreateAttendance
    \/ CalculateMonthlyPayments
    \/ PayInstalment

SpecInstalments == Init /\ [][NextInstalments]_vars

\* three consecutive months billed for a student who pays nothing: lessons
\* are recorded in any of the months and each month is billed, in any order
\* and any number of times
CarryMonths == {1, 2, 3}

CarryLesson ==
    \E records \in LessonRecords, month \in CarryMonths :
         create_attendance(TeacherId, 1, records, <<month, 1>>)

BillCarry == \E month \in CarryMonths : calculate_monthly_payments(AdminId, month)

NextCarry == CarryLesson \/ BillCarry

SpecCarry == Init /\ [][NextCarry]_vars

\* the payroll engine over a short ledger
\* payments of 40 and 80: with these and the percentages used no figure of
\* the payroll falls halfway between two hundredths
PayrollAmounts == {40, 80}

PostPayment ==
    \E amount \in PayrollAmounts : create_payment(AdminId, amount, 1, None, None)

\* the record lists of the lesson: student 1 alone, or students 1 and 2 with
\* student 2 absent
PayrollLessonRecords ==
    {<<[student_id |-> 1, is_present |-> present, reason |-> ""]>>
        : present \in BOOLEAN}
    \cup {<<[student_id |-> 1, is_present |-> TRUE, reason |-> ""],
            [student_id |-> 2, is_present |-> FALSE, reason |-> ""]>>}

TakeAttendance ==
    \E records \in PayrollLessonRecords :
         create_attendance(TeacherId, 1, records, <<today, 1>>)

GetSalarySettings == get_salary_settings

UpdateSalarySettings ==
    update_salary_settings(AdminId, SettingsRow(30, 0, 10))

CalculatePayroll == \E month \in Months : calculate_payroll(AdminId, month)

PaySalary ==
    /\ \E payroll_id \in 1..MaxPayroll : pay_salary(AdminId, payroll_id, 10)
    /\ Cardinality(ReferencedPayroll') <= MaxPaid

NextPayroll ==
    \/ PostPayment
    \/ TakeAttendance
    \/ GetSalarySettings
    \/ UpdateSalarySettings
    \/ CalculatePayroll
    \/ PaySalary

\* User.teacher_percent (models.py:69) is a nullable column no router writes:
\* the teacher's row starts without an override or with one of 100 percent
TeacherOverrides == {None, 100}

\* The rows are those of Init, created in the first month; the service runs
\* in the first month or in the second.
InitPayroll ==
    /\ today \in Months
    /\ inflight = [c \in Calls |-> <<>>]
    /\ users \in {[InitUsers(None) EXCEPT ![TeacherId].teacher_percent = pct]
                    : pct \in TeacherOverrides}
    /\ courses = [c \in {1, 2} |-> [price |-> IF c = 1 THEN 20 ELSE 30]]
    /\ groups = [g \in GroupIds |-> [teacher_id |-> TeacherId, course_id |-> g]]
    /\ group_students = {}
    /\ payments = <<>>
    /\ attendance = <<>>
    /\ salary_settings = <<>>
    /\ payroll = {}
    /\ next_payroll_id = 1
    /\ payroll_payments = <<>>
    /\ resp = Response(0, "")

SpecPayroll == InitPayroll /\ [][NextPayroll]_vars

\* the attendance log: requests of a student, a teacher and an admin for two
\* groups and two lesson dates
RollCallers == {1, TeacherId, AdminId}
RollDates == {<<1, 1>>, <<1, 2>>}

\* the record lists posted: one student, the same student twice, two
\* students, a student that does not exist
RollRecords ==
    {<<[student_id |-> 1, is_present |-> present, reason |-> ""]>> : present \in BOOLEAN}
    \cup {<<[student_id |-> 1, is_present |-> TRUE, reason |-> ""],
            [student_id |-> s, is_present |-> FALSE, reason |-> "sababli"]>>
            : s \in StudentIds}
    \cup {<<[student_id |-> MissingId, is_present |-> TRUE, reason |-> ""]>>}

TakeRoll ==
    \E caller \in RollCallers, group_id \in GroupIds \cup {MissingId},
       records \in RollRecords, date \in RollDates :
         create_attendance(caller, group_id, records, date)

NextAttendance == TakeRoll

SpecAttendance == Init /\ [][NextAttendance]_vars

\* the payroll engine with requests that end in an exception
InterruptPayroll ==
    \E month \in Months, phase \in InterruptPhases :
         calculate_payroll_interrupted(AdminId, month, phase)

NextFaults ==
    \/ PostPayment
    \/ CalculatePayroll
    \/ InterruptPayroll

SpecFaults == InitPayroll /\ [][NextFaults]_vars

\* ------------------------------------------- requests served side by side
\* Two requests may be served at once, each in its own session.  A request
\* first runs its queries and keeps what they returned; its writes reach the
\* table when it commits.  inflight[c] is <<>> before request c has begun,
\* <<"calc", ...>> or <<"pay", ...>> between its queries and its commit,
\* <<"done", key, code>> once it has answered.
Phase(c) == IF inflight[c] = <<>> THEN "idle" ELSE inflight[c][1]

Idle == \A c \in Calls : Phase(c) = "idle"

UnchangedByCalls ==
    UNCHANGED <<today, users, groups, group_students, courses, attendance,
                salary_settings, next_payroll_id>>

\* calculate_monthly_payments up to its commit: the role check and the
\* queries of the loops; the session keeps, for every row found, the row as
\* loaded and as recomputed, and the rows to insert
calc_begin(c, caller, month_in) ==
    /\ Phase(c) = "idle"
    /\ UnchangedByCalls
    /\ UNCHANGED <<payments, payroll, payroll_payments>>
    /\ IF users[caller].role \notin {"manager", "admin"}
       THEN /\ resp' = Response(403, "Faqat manager yoki admin hisoblay oladi.")
            /\ inflight' = [inflight EXCEPT ![c] = <<"done", month_in, 403>>]
       ELSE LET month == IF month_in = None THEN today ELSE month_in
            IN \E existing \in FirstChoices(month) :
                  LET created == CalcCreated(existing)
                      loaded == [i \in CalcUpdated(existing) |-> payments[i]]
                      computed == [i \in CalcUpdated(existing) |->
                                      CalcUpdatedRow(existing, i, month)]
                      inserts == [k \in 1..Len(created) |->
                                     CalculatedRow(created[k][1], created[k][2], month)]
                  IN /\ inflight' = [inflight EXCEPT
                                       ![c] = <<"calc", month, loaded, computed, inserts>>]
                     /\ UNCHANGED resp

\* the commit of calculate_monthly_payments (payments.py:399): an UPDATE of
\* the columns the session changed on the rows it loaded, whatever they hold
\* by now, and an INSERT of the new rows
calc_commit(c) ==
    /\ Phase(c) = "calc"
    /\ UnchangedByCalls
    /\ UNCHANGED <<payroll, payroll_payments>>
    /\ LET month == inflight[c][2]
           loaded == inflight[c][3]
           computed == inflight[c][4]
           inserts == inflight[c][5]
       IN /\ payments' =
               [i \in PaymentIds |->
                   IF i \in DOMAIN computed
                   THEN [payments[i] EXCEPT
                           !.debt_amount =
                               IF computed[i].debt_amount # loaded[i].debt_amount
                               THEN computed[i].debt_amount ELSE @,
                           !.status =
                               IF computed[i].status # loaded[i].status
                               THEN computed[i].status ELSE @]
                   ELSE payments[i]] \o inserts
          /\ Len(payments') <= MaxPayments
          /\ inflight' = [inflight EXCEPT ![c] = <<"done", month, 200>>]
          /\ resp' = Response(200, "")

\* pay_salary up to its commit: the role check, the lookup of the row and the
\* check of its status
pay_begin(c, caller, payroll_id, paid_amount) ==
    LET rows == {r \in payroll : r.id = payroll_id}
        fail(code, detail) ==
            /\ resp' = Response(code, detail)
            /\ inflight' = [inflight EXCEPT ![c] = <<"done", payroll_id, code>>]
    IN
    /\ Phase(c) = "idle"
    /\ UnchangedByCalls
    /\ UNCHANGED <<payments, payroll, payroll_payments>>
    /\ IF users[caller].role # "admin" THEN fail(403, "Only admin can mark paid")
       ELSE IF rows = {} THEN fail(404, "Payroll not found")
       ELSE IF AlreadyPaid(CHOOSE r \in rows : TRUE) THEN fail(400, "Already paid")
       ELSE /\ inflight' = [inflight EXCEPT
                              ![c] = <<"pay", payroll_id, paid_amount, caller>>]
            /\ UNCHANGED resp

\* the commit of pay_salary (payroll.py:287): an UPDATE of status and paid_at
\* on the row, whatever it holds by now, and an INSERT of the payroll payment
pay_commit(c) ==
    /\ Phase(c) = "pay"
    /\ UnchangedByCalls
    /\ UNCHANGED payments
    /\ LET payroll_id == inflight[c][2]
           paid_amount == inflight[c][3]
           caller == inflight[c][4]
       IN /\ payroll' = {IF r.id = payroll_id
                         THEN [r EXCEPT !.status = "paid", !.paid_at = today]
                         ELSE r : r \in payroll}
          /\ payroll_payments' = Append(payroll_payments,
                                        [payroll_id |-> payroll_id,
                                         paid_amount |-> paid_amount,
                                         paid_by |-> caller,
                                         paid_at |-> today])
          /\ inflight' = [inflight EXCEPT ![c] = <<"done", payroll_id, 200>>]
          /\ resp' = Response(200, "")

\* two calculate_monthly_payments requests over a ledger prepared before them
PrepareDebts == Idle /\ GenerateMonthlyDebts

PrepareLesson == Idle /\ CreateAttendance

BeginCalc == \E c \in Calls, month_in \in {None, 2} : calc_begin(c, AdminId, month_in)

CommitCalc == \E c \in Calls : calc_commit(c)

NextRaceCalc ==
    \/ PrepareDebts
    \/ PrepareLesson
    \/ BeginCalc
    \/ CommitCalc

SpecRaceCalc == Init /\ [][NextRaceCalc]_vars

\* two pay_salary requests over a payroll calculated before them
PreparePayment == Idle /\ PostPayment

PreparePayroll == Idle /\ CalculatePayroll

BeginPay ==
    \E c \in Calls, payroll_id \in 1..MaxPayroll : pay_begin(c, AdminId, payroll_id, 10)

CommitPay == \E c \in Calls : pay_commit(c)

NextRacePay ==
    \/ PreparePayment
    \/ PreparePayroll
    \/ BeginPay
    \/ CommitPay

SpecRacePay == InitPayroll /\ [][NextRacePay]_vars

\* the month strings of the requests: the well-formed ones and a malformed
\* one, "YYYY-13", which follows every month of the year in string order
BadMonths == {13}

BillMonth ==
    /\ \E month \in Months \cup BadMonths : calculate_monthly_payments(AdminId, month)
    /\ Len(payments') <= MaxPayments

PayrollMonth == \E month \in Months \cup BadMonths : calculate_payroll(AdminId, month)

NextMonths ==
    \/ GenerateMonthlyDebts
    \/ PostPayment
    \/ BillMonth
    \/ PayrollMonth

SpecMonths == Init /\ [][NextMonths]_vars

\* ------------------------------------------------------- the users table
\* the tables no operation on users writes
UnchangedByUsers ==
    UNCHANGED <<today, inflight, groups, group_students, courses, payments, attendance,
                salary_settings, payroll, next_payroll_id, payroll_payments>>

\* a field the request body leaves out (dict(exclude_unset=True))
Unset == "(unset)"

\* a row other than that of user_id holds the username
UsernameTaken(username, user_id) ==
    \E u \in DOMAIN users : u # user_id /\ users[u].username = username

\* the primary key of the next users row
NewUserId == Cardinality(DOMAIN users) + 1

NewUser(username, role) ==
    [role |-> role,
     username |-> username,
     group_id |-> None,
     balance |-> 0,
     teacher_percent |-> None,
     created_at |-> today]

InsertUser(username, role) ==
    /\ Cardinality(DOMAIN users) < MaxUsers
    /\ users' = [u \in DOMAIN users \cup {NewUserId} |->
                    IF u = NewUserId THEN NewUser(username, role) ELSE users[u]]
    /\ resp' = Response(200, "")

\* the commit of a new username for the row: the unique index of
\* users.username refuses a name another row holds, the session is rolled
\* back and the request ends with an unhandled IntegrityError
CommitUsername(user_id, username) ==
    IF UsernameTaken(username, user_id)
    THEN /\ resp' = Response(500, "Internal Server Error")
         /\ UNCHANGED users
    ELSE /\ users' = [users EXCEPT ![user_id].username = username]
         /\ resp' = Response(200, "")

\* auth.register: no current user is asked for
register(username, role) ==
    /\ UnchangedByUsers
    /\ IF UsernameTaken(username, None)
       THEN /\ resp' = Response(400, "Username already exists")
            /\ UNCHANGED users
       ELSE InsertUser(username, role)

\* users.create_user
create_user(caller, username, role) ==
    /\ UnchangedByUsers
    /\ IF ~Authenticated(caller)
       THEN resp' = Unauthorized /\ UNCHANGED users
       ELSE IF users[caller].role \notin {"admin", "manager"}
       THEN resp' = Response(403, "Not allowed to create users") /\ UNCHANGED users
       ELSE IF UsernameTaken(username, None)
       THEN resp' = Response(400, "Username already exists") /\ UNCHANGED users
       ELSE InsertUser(username, role)

\* students.create_student, for a body without course_id
create_student(caller, username) ==
    /\ UnchangedByUsers
    /\ IF ~Authenticated(caller)
       THEN resp' = Unauthorized /\ UNCHANGED users
       ELSE IF users[caller].role \notin {"admin", "manager"}
       THEN resp' = Response(403, "Not allowed") /\ UNCHANGED users
       ELSE IF UsernameTaken(username, None)
       THEN resp' = Response(400, "Username already exists") /\ UNCHANGED users
       ELSE InsertUser(username, "student")

\* users.update_user, for a body that carries a username or no field at all:
\* the username is looked up only when it is given and not empty
update_user(caller, user_id, username) ==
    /\ UnchangedByUsers
    /\ IF ~Authenticated(caller)
       THEN resp' = Unauthorized /\ UNCHANGED users
       ELSE IF caller # user_id /\ users[caller].role \notin {"admin", "manager"}
       THEN resp' = Response(403, "Not allowed to update this user") /\ UNCHANGED users
       ELSE IF user_id \notin DOMAIN users
       THEN resp' = Response(404, "User not found") /\ UNCHANGED users
       ELSE IF username # Unset /\ username # "" /\ UsernameTaken(username, user_id)
       THEN resp' = Response(400, "Username already exists") /\ UNCHANGED users
       ELSE IF username = Unset
       THEN resp' = Response(200, "") /\ UNCHANGED users
       ELSE CommitUsername(user_id, username)

\* students.update_student, for a body that carries a username or no field
\* at all: the username is not looked up
update_student(caller, student_id, username) ==
    /\ UnchangedByUsers
    /\ IF ~Authenticated(caller)
       THEN resp' = Unauthorized /\ UNCHANGED users
       ELSE IF users[caller].role \notin {"admin", "manager", "teacher"}
       THEN resp' = Response(403, "Not allowed") /\ UNCHANGED users
       ELSE IF ~IsStudent(student_id)
       THEN resp' = Response(404, "Student not found") /\ UNCHANGED users
       ELSE IF username = Unset
       THEN resp' = Response(200, "") /\ UNCHANGED users
       ELSE CommitUsername(student_id, username)

\* the accounts: requests of every role and of no user, with a name on
\* record, a new name, the empty name
AnyCaller == {None, 1, TeacherId, ManagerId, AdminId}
Roles == {"student", "teacher", "manager", "admin"}
NewUsernames == {"s1", "teacher", "n1"}
UpdatedUsernames == {Unset, "", "s1", "n2"}

Register == \E username \in NewUsernames, role \in Roles : register(username, role)

CreateUser ==
    \E caller \in AnyCaller, username \in NewUsernames, role \in {"student", "teacher"} :
         create_user(caller, username, role)

CreateStudent ==
    \E caller \in AnyCaller, username \in NewUsernames : create_student(caller, username)

UpdateUser ==
    \E caller \in AnyCaller, user_id \in {1, 2, MissingId}, username \in UpdatedUsernames :
         update_user(caller, user_id, username)

UpdateStudent ==
    \E caller \in AnyCaller, student_id \in {1, 2, TeacherId},
       username \in UpdatedUsernames :
         update_student(caller, student_id, username)

NextUsers ==
    \/ Register
    \/ CreateUser
    \/ CreateStudent
    \/ UpdateUser
    \/ UpdateStudent

SpecUsers == Init /\ [][NextUsers]_vars

\* ------------------------------------------------------ the groups table
\* The handlers of routers/groups.py declare no current user: they run the
\* same for every request, whoever sends it.  A group row is modelled by its
\* teacher_id and course_id; the requests carry no name or description.
UnchangedByGroups ==
    UNCHANGED <<today, inflight, courses, attendance, salary_settings, payroll,
                next_payroll_id, payroll_payments>>

\* groups.create_group: past the course lookup the handler reads
\* group.teacher_id, a field GroupCreate does not have, and ends with an
\* unhandled AttributeError before anything is added
create_group(group) ==
    /\ UnchangedByGroups
    /\ UNCHANGED <<users, groups, group_students, payments>>
    /\ IF group.course_id \notin DOMAIN courses
       THEN resp' = Response(404, "Course not found")
       ELSE resp' = Response(500, "Internal Server Error")

\* the students among the ids of the request
ValidStudents(student_ids) == {u \in student_ids : IsStudent(u)}

\* groups.update_group: updated.student_ids is a list (the empty one when the
\* body leaves it out) and replaces the members of the group
update_group(group_id, updated) ==
    LET fail(detail) ==
            /\ resp' = Response(404, detail)
            /\ UNCHANGED <<users, groups, group_students>>
        course_id == IF updated.course_id # None THEN updated.course_id
                     ELSE groups[group_id].course_id
        students == ValidStudents(updated.student_ids)
        others == {p \in group_students : p[1] # group_id}
    IN
    /\ UnchangedByGroups
    /\ UNCHANGED payments
    /\ IF group_id \notin DOMAIN groups THEN fail("Group not found")
       ELSE IF updated.course_id # None /\ updated.course_id \notin DOMAIN courses
       THEN fail("Course not found")
       ELSE IF updated.student_ids # {} /\ students = {}
       THEN fail("No valid students found")
       ELSE /\ groups' = [groups EXCEPT ![group_id].course_id = course_id]
            /\ group_students' = others \cup {<<group_id, u>> : u \in students}
            /\ users' = [u \in DOMAIN users |->
                           IF u \in students /\ course_id # None
                           THEN [users[u] EXCEPT !.group_id = group_id]
                           ELSE users[u]]
            /\ resp' = Response(200, "")

\* groups.delete_group: the rows of the group in group_students go with it
\* and its payments lose their group_id; an attendance row of the group
\* cannot lose its group_id (NOT NULL), which ends the request with an
\* unhandled IntegrityError
delete_group(group_id) ==
    /\ UnchangedByGroups
    /\ IF group_id \notin DOMAIN groups
       THEN /\ resp' = Response(404, "Group not found")
            /\ UNCHANGED <<users, groups, group_students, payments>>
       ELSE IF \E i \in 1..Len(attendance) : attendance[i].group_id = group_id
       THEN /\ resp' = Response(500, "Internal Server Error")
            /\ UNCHANGED <<users, groups, group_students, payments>>
       ELSE /\ users' = [u \in DOMAIN users |->
                           IF users[u].group_id = group_id
                           THEN [users[u] EXCEPT !.group_id = None]
                           ELSE users[u]]
            /\ groups' = [g \in DOMAIN groups \ {group_id} |-> groups[g]]
            /\ group_students' = {p \in group_students : p[1] # group_id}
            /\ payments' = [i \in 1..Len(payments) |->
                              IF payments[i].group_id = group_id
                              THEN [payments[i] EXCEPT !.group_id = None]
                              ELSE payments[i]]
            /\ resp' = Response(200, "Group deleted successfully")

\* the requests of every role and of no user to the groups, the salary
\* settings and the payment ledger
GroupBodies ==
    [course_id : {None, 2, MissingId}, student_ids : {{}, {1}, {1, 2}, {TeacherId}}]

CreateGroup == \E course_id \in {1, MissingId} : create_group([course_id |-> course_id])

UpdateGroup ==
    \E group_id \in GroupIds \cup {MissingId}, updated \in GroupBodies :
         update_group(group_id, updated)

DeleteGroup == \E group_id \in GroupIds \cup {MissingId} : delete_group(group_id)

\* the groups router alone, from tables in which no student is in a group:
\* users.group_id and the group_students rows say the same
InitGroups ==
    /\ today = 1
    /\ inflight = [c \in Calls |-> <<>>]
    /\ users = [InitUsers(None) EXCEPT ![1].group_id = None]
    /\ courses = [c \in {1, 2} |-> [price |-> IF c = 1 THEN 20 ELSE 30]]
    /\ groups = [g \in GroupIds |-> [teacher_id |-> TeacherId, course_id |-> g]]
    /\ group_students = {}
    /\ payments = <<>>
    /\ attendance = <<>>
    /\ salary_settings = <<>>
    /\ payroll = {}
    /\ next_payroll_id = 1
    /\ payroll_payments = <<>>
    /\ resp = Response(0, "")

NextGroups == CreateGroup \/ UpdateGroup \/ DeleteGroup

SpecGroups == InitGroups /\ [][NextGroups]_vars

ReadSalarySettings == get_salary_settings

WriteSalarySettings ==
    \E caller \in AnyCaller : update_salary_settings(caller, SettingsRow(30, 0, 10))

PostPaymentAs ==
    /\ Cardinality(PostedRows) < MaxPosted
    /\ \E caller \in AnyCaller, amount \in {10, 30} :
          create_payment(caller, amount, 1, None, None)

MarkLesson ==
    create_attendance(TeacherId, 2,
                      <<[student_id |-> 1, is_present |-> TRUE, reason |-> ""]>>, <<1, 1>>)

NextAccess ==
    \/ CreateGroup
    \/ UpdateGroup
    \/ DeleteGroup
    \/ ReadSalarySettings
    \/ WriteSalarySettings
    \/ PostPaymentAs
    \/ MarkLesson

SpecAccess == Init /\ [][NextAccess]_vars

\* ------------------------------------------------------------ properties
\* what every calculate_monthly_payments step for month m does: it answers
\* 200, leaves users and attendance alone, changes no amount, writes rows of
\* month m only and adds rows of amount 0 only
WritesMonth(m) ==
    /\ resp'.code = 200
    /\ users' = users
    /\ attendance' = attendance
    /\ Len(payments') >= Len(payments)
    /\ \A i \in 1..Len(payments') :
          IF i \in PaymentIds
          THEN /\ payments'[i].amount = payments[i].amount
               /\ payments'[i] # payments[i] => payments[i].month = m
          ELSE payments'[i].amount = 0 /\ payments'[i].month = m

\* a successful calculate_monthly_payments request for month m (WritesMonth
\* follows from the action and is tested first)
CalcStep(m) == WritesMonth(m) /\ calculate_monthly_payments(AdminId, m)

\* WritesMonth leaves out no step of calculate_monthly_payments
CalcStepIsTheAction ==
    [][\A m \in Months : calculate_monthly_payments(AdminId, m) => WritesMonth(m)]_vars

\* in the step taken, i is the row of (s, g, m) that was written: every other
\* row of the triple existed before and is unchanged
WrittenRow(s, g, m, i) ==
    /\ i \in PaymentsOf(s, g, m)'
    /\ \A j \in PaymentsOf(s, g, m)' \ {i} : j \in PaymentIds /\ payments'[j] = payments[j]

\* what the rows of (s, g) in the months before m record as still owed
OwedBefore(s, g, m) ==
    SumOver({k \in Months : k < m},
            [k \in Months |->
                SumOver(PaymentsOf(s, g, k),
                        [i \in PaymentIds |-> payments[i].debt_amount])])

AllPresent(s, g, m) ==
    /\ AttendanceRows(s, g, m) # {}
    /\ \A i \in AttendanceRows(s, g, m) : attendance[i].status = "present"

AllExcused(s, g, m) ==
    /\ AttendanceRows(s, g, m) # {}
    /\ \A i \in AttendanceRows(s, g, m) :
          attendance[i].status = "absent" /\ attendance[i].reason = "sababli"

SomeChargeable(s, g, m) ==
    \E i \in AttendanceRows(s, g, m) :
        \/ attendance[i].status = "present"
        \/ attendance[i].status = "absent" /\ attendance[i].reason = "sababsiz"

\* C1: there is at most one payment record per (student, group, month).
C1_OneRecordPerTriple ==
    \A s \in StudentIds, g \in GroupIds \cup {None}, m \in Months :
        Cardinality(PaymentsOf(s, g, m)) <= 1

\* C2: for a student who attended every lesson of month m, with no earlier
\* debt, calculate_monthly_payments records the debt P, and once a payment of
\* exactly P is posted for the triple, every record of the triple shows debt 0
\* and status paid.
C2_FullMonthThenExactPayment ==
    [][\A m \in Months, p \in BilledPairs :
         LET s == p[1]
             g == p[2]
             P == CoursePrice(g)
             clean == AllPresent(s, g, m) /\ OwedBefore(s, g, m) = 0
         IN /\ (CalcStep(m) /\ clean)
                 => \E i \in PaymentsOf(s, g, m)' :
                       WrittenRow(s, g, m, i) /\ payments'[i].debt_amount = P
            /\ ( /\ clean
                 /\ \E i \in PaymentIds :
                       /\ PaymentsOf(s, g, m) = {i}
                       /\ payments[i].amount = 0
                       /\ payments[i].debt_amount = P
                       /\ \/ create_payment(AdminId, P, s, None, m)
                          \/ mark_payment_as_paid(AdminId, i, P) )
                 => \A j \in PaymentsOf(s, g, m)' :
                       payments'[j].debt_amount = 0 /\ payments'[j].status = "paid"
      ]_vars

\* C2, posting through mark_payment_as_paid only: the part the code satisfies
C2_ViaMarkPaid ==
    [][\A m \in Months, p \in BilledPairs :
         LET s == p[1]
             g == p[2]
             P == CoursePrice(g)
         IN ( /\ AllPresent(s, g, m) /\ OwedBefore(s, g, m) = 0
              /\ \E i \in PaymentIds :
                    /\ PaymentsOf(s, g, m) = {i}
                    /\ payments[i].amount = 0
                    /\ payments[i].debt_amount = P
                    /\ mark_payment_as_paid(AdminId, i, P) )
            => \A j \in PaymentsOf(s, g, m)' :
                  payments'[j].debt_amount = 0 /\ payments'[j].status = "paid"
      ]_vars

\* C3: a student holding a credit balance B > 0 from an overpayment of an
\* earlier month is recorded, for a month whose charge is C, the debt
\* max(C - B, 0).
C3_BalanceReducesCharge ==
    [][\A m \in Months, p \in BilledPairs :
         LET s == p[1]
             g == p[2]
             B == users[s].balance
             C == MonthlyDue(s, g, m)
         IN ( /\ CalcStep(m)
              /\ B > 0
              /\ OwedBefore(s, g, m) = 0
              /\ \E j \in PaymentIds :
                    /\ payments[j].student_id = s
                    /\ payments[j].month < m
                    /\ payments[j].amount > PaymentCoursePrice(j) )
            => \E i \in PaymentsOf(s, g, m)' :
                  WrittenRow(s, g, m, i) /\ payments'[i].debt_amount = Max(C - B, 0)
      ]_vars

\* the amount create_payment takes to be due: the course price of the group
\* the payment is booked on, nothing without a group or course
AmountDue(student_id, group_id) ==
    IF ResolveGroup(student_id, group_id) = None THEN 0
    ELSE CoursePrice(ResolveGroup(student_id, group_id))

\* C4: create_payment of an amount A against an amount due D raises the
\* student's balance by exactly A - D if A > D and leaves it unchanged if
\* A <= D.
C4_ExcessCredited ==
    [][\A body \in PaymentBodies, m \in Months :
         LET A == body[1]
             s == body[2]
             D == AmountDue(body[2], body[3])
         IN create_payment(AdminId, A, s, body[3], m)
            => users'[s].balance = users[s].balance + (IF A > D THEN A - D ELSE 0)
      ]_vars

\* C5: a student whose attendance records of the month are all excused
\* absences is charged 0, one with a present record or an unexcused absence is
\* charged the full course price.
C5_ChargeableLessons ==
    [][\A m \in Months, p \in BilledPairs :
         LET s == p[1]
             g == p[2]
             charged(c) ==
                \E i \in PaymentsOf(s, g, m)' :
                    /\ WrittenRow(s, g, m, i)
                    /\ payments'[i].debt_amount = c + OwedBefore(s, g, m)
         IN CalcStep(m)
            => /\ AllExcused(s, g, m) => charged(0)
               /\ SomeChargeable(s, g, m) => charged(CoursePrice(g))
      ]_vars

ClaimedStatus(debt, amount, course_price) ==
    IF debt <= 0 THEN "paid"
    ELSE IF amount > 0 /\ debt < course_price THEN "partial"
    ELSE "unpaid"

\* the status the code gives: partial when the amount paid is below the price
AmendedStatus(debt, amount, course_price) ==
    IF debt <= 0 THEN "paid"
    ELSE IF amount > 0 /\ amount < course_price THEN "partial"
    ELSE "unpaid"

\* C7 as stated: the written record is paid if its debt is <= 0, partial if an
\* amount is recorded on it while debt remains and that debt is below the
\* course price, unpaid otherwise.
C7_StatusByDebt ==
    [][\A m \in Months, p \in BilledPairs :
         CalcStep(m)
         => \E i \in PaymentsOf(p[1], p[2], m)' :
               /\ WrittenRow(p[1], p[2], m, i)
               /\ payments'[i].debt_amount = FinalDebt(p[1], p[2], m)
               /\ payments'[i].status =
                     ClaimedStatus(payments'[i].debt_amount, payments'[i].amount,
                                   CoursePrice(p[2]))
      ]_vars

\* C7 amended: the written record is paid if its debt is <= 0, partial if an
\* amount is recorded on it while debt remains and that amount is below the
\* course price, unpaid otherwise.
C7_StatusByAmount ==
    [][\A m \in Months, p \in BilledPairs :
         CalcStep(m)
         => \E i \in PaymentsOf(p[1], p[2], m)' :
               /\ WrittenRow(p[1], p[2], m, i)
               /\ payments'[i].debt_amount = FinalDebt(p[1], p[2], m)
               /\ payments'[i].status =
                     AmendedStatus(payments'[i].debt_amount, payments'[i].amount,
                                   CoursePrice(p[2]))
      ]_vars

\* a partially paid record whose recomputed debt is not below the course price
C7_Witness ==
    \E i \in PaymentIds :
        /\ payments[i].group_id = 1
        /\ payments[i].status = "partial"
        /\ payments[i].amount > 0
        /\ payments[i].debt_amount >= CoursePrice(1)

\* C8: for a student without attendance records in month m and without debt
\* from earlier months, calculate_monthly_payments records debt 0 and status
\* paid, on a new record as on an existing one.
C8_NoLessonsNoDebt ==
    [][\A m \in Months, p \in BilledPairs :
         ( /\ CalcStep(m)
           /\ AttendanceRows(p[1], p[2], m) = {}
           /\ OwedBefore(p[1], p[2], m) = 0 )
         => \E i \in PaymentsOf(p[1], p[2], m)' :
               /\ WrittenRow(p[1], p[2], m, i)
               /\ payments'[i].debt_amount = 0
               /\ payments'[i].status = "paid"
      ]_vars

\* a record created with debt 0 for a month without lessons, and a generated
\* debt of the current month recomputed to 0
C8_Witness ==
    /\ attendance = <<>>
    /\ \E i, j \in PaymentIds :
          /\ payments[i].group_id = 1 /\ payments[j].group_id = 1
          /\ payments[i].month = 2 /\ payments[j].month = 1
          /\ payments[i].amount = 0 /\ payments[j].amount = 0
          /\ payments[i].debt_amount = 0 /\ payments[j].debt_amount = 0
          /\ payments[i].status = "paid" /\ payments[j].status = "paid"

\* a second calculate_monthly_payments for month m would change nothing
Recomputed(m) ==
    \A existing \in FirstChoices(m) :
        Len(CalcCreated(existing)) = 0 /\ CalcTable(existing, m) = payments

\* C9: after calculate_monthly_payments for month m, running it again for m
\* leaves every record's debt_amount and status as they are and adds no record.
C9_Idempotent ==
    [][\A m \in Months : CalcStep(m) => Recomputed(m)']_vars

\* C9 while every (student, group, month) has a single record
C9_IdempotentWithoutDuplicates ==
    [][\A m \in Months : (CalcStep(m) /\ C1_OneRecordPerTriple') => Recomputed(m)']_vars

\* C10: pay_salary on a payroll row that is already paid fails with 400
\* "Already paid" and changes neither the row nor the payroll payments.
C10_AlreadyPaidRejected ==
    [][\A payroll_id \in 1..MaxPayroll :
         ( /\ pay_salary(AdminId, payroll_id, 10)
           /\ \E r \in payroll : r.id = payroll_id /\ r.status = "paid" )
         => /\ resp' = Response(400, "Already paid")
            /\ payroll' = payroll
            /\ payroll_payments' = payroll_payments
      ]_vars

\* the second pay_salary on a paid row has been answered
C10_Witness ==
    /\ resp = Response(400, "Already paid")
    /\ \E r \in payroll : r.status = "paid" /\ r.paid_at # None
    /\ Len(payroll_payments) = 1

\* ------------------------------------------------- properties of the payroll
Abs(x) == IF x >= 0 THEN x ELSE 0 - x

\* a calculate_payroll request for the month that ran to its end: no other
\* step takes primary keys of the payroll table
CalcPayrollDone(month) ==
    /\ next_payroll_id' > next_payroll_id
    /\ calculate_payroll(AdminId, month)

RowsOfMonth(month) == {r \in payroll : r.month = month}

Staff == TeacherUsers \cup ManagerUsers

Figures(r) ==
    [user_id |-> r.user_id, earned |-> r.earned,
     deductions |-> r.deductions, net |-> r.net]

\* the figures a calculate_payroll run for the month would record now
NextRunFigures(month) ==
    {Figures(TeacherPayroll(t, month, PayrollSettings, 0)) : t \in TeacherUsers}
    \cup {Figures(ManagerPayroll(m, month, PayrollSettings, 0)) : m \in ManagerUsers}

\* C11: right after calculate_payroll for a month, a second run for that month
\* would record for every teacher and manager the earned, deductions and net
\* figures the first run recorded.
C11_RecalculationRepeats ==
    [][\A month \in Months :
         CalcPayrollDone(month)
         => ({Figures(r) : r \in RowsOfMonth(month)} = NextRunFigures(month))'
      ]_vars

\* calculate_payroll has run twice for one month, on payments that earn
\* something, and the rows of the second run carry the figures of a next run
C11_Witness ==
    \E month \in Months :
        /\ payroll # {}
        /\ \A r \in payroll : r.month = month /\ r.id >= 3
        /\ \E r \in payroll : r.earned > 0
        /\ {Figures(r) : r \in RowsOfMonth(month)} = NextRunFigures(month)

\* C12: after calculate_payroll for a month ran to its end, the rows of the
\* month are one per teacher and one per manager, all pending, and none of
\* them is a row that was there before the call.
C12_DestructiveRecompute ==
    [][\A month \in Months :
         CalcPayrollDone(month)
         => /\ \A u \in Staff :
                 Cardinality({r \in RowsOfMonth(month)' : r.user_id = u}) = 1
            /\ \A r \in RowsOfMonth(month)' :
                 /\ r.user_id \in Staff
                 /\ r.role = users[r.user_id].role
                 /\ r.status = "pending"
                 /\ r.id \notin {q.id : q \in payroll}
      ]_vars

\* the rows of a month were deleted and written again: the table holds the
\* two rows of the second run only
C12_Witness ==
    /\ Cardinality(payroll) = 2
    /\ \A r \in payroll : r.id >= 3 /\ r.status = "pending"
    /\ \E r, q \in payroll : r.month = q.month /\ r.role = "teacher" /\ q.role = "manager"

\* the percentage C13 states: the teacher's own when set, else the global one
ClaimedTeacherPercent(t) ==
    IF users[t].teacher_percent # None THEN users[t].teacher_percent
    ELSE PayrollSettings.teacher_percent

\* C13: the earned figure of a teacher's row is the teacher's summed payments
\* times the teacher's own teacher_percent when it is set, times the global
\* teacher_percent otherwise (to the hundredth).
C13_TeacherOverrideApplied ==
    [][\A month \in Months :
         CalcPayrollDone(month)
         => \A t \in TeacherUsers :
               \E r \in RowsOfMonth(month)' :
                  /\ r.user_id = t
                  /\ Abs(100 * r.earned
                         - PaymentsSum(GroupsTaught(t), month) * ClaimedTeacherPercent(t))
                       <= 500
      ]_vars

\* attendance records of the teacher's groups dated within the month
GroupRecords(t, month) ==
    {i \in 1..Len(attendance) :
        /\ groups[attendance[i].group_id].teacher_id = t
        /\ attendance[i].date[1] = month}

PresentRecords(t, month) ==
    {i \in GroupRecords(t, month) : attendance[i].status = "present"}

\* C14 as stated: deductions = earned x (1 - r) and net = earned - deductions
\* on the figures of the row, r the share of present records, r = 1 without
\* records; 0 <= net <= earned.
C14_DeductionsExact ==
    [][\A month \in Months :
         CalcPayrollDone(month)
         => \A t \in TeacherUsers :
               \E r \in RowsOfMonth(month)' :
                  LET total == Cardinality(GroupRecords(t, month))
                      present == Cardinality(PresentRecords(t, month))
                  IN /\ r.user_id = t
                     /\ IF total = 0 THEN r.deductions = 0
                        ELSE total * r.deductions = r.earned * (total - present)
                     /\ r.net = r.earned - r.deductions
                     /\ 0 <= r.net /\ r.net <= r.earned
      ]_vars

\* C14 amended: with E the teacher's summed payments times the percentage
\* applied, earned, deductions and net are E, E x (1 - r) and E x r, each
\* rounded to the hundredth on its own, so that net and earned - deductions
\* differ by a hundredth at most; 0 <= net <= earned.
C14_DeductionsRounded ==
    [][\A month \in Months :
         CalcPayrollDone(month)
         => \A t \in TeacherUsers :
               \E r \in RowsOfMonth(month)' :
                  LET total == Cardinality(GroupRecords(t, month))
                      present == Cardinality(PresentRecords(t, month))
                      E100 == PaymentsSum(GroupsTaught(t), month)
                                * PayrollSettings.teacher_percent
                  IN /\ r.user_id = t
                     /\ r.earned % 10 = 0 /\ r.deductions % 10 = 0 /\ r.net % 10 = 0
                     /\ Abs(100 * r.earned - E100) <= 500
                     /\ IF total = 0
                        THEN r.deductions = 0 /\ r.net = r.earned
                        ELSE /\ Abs(100 * total * r.deductions - E100 * (total - present))
                                  <= 500 * total
                             /\ Abs(100 * total * r.net - E100 * present) <= 500 * total
                     /\ Abs(r.net - (r.earned - r.deductions)) <= 10
                     /\ 0 <= r.net /\ r.net <= r.earned
      ]_vars

\* a teacher row of a month in which half of the records are present: it
\* carries a deduction and a net figure
C14_Witness ==
    \E r \in payroll :
        /\ r.role = "teacher"
        /\ r.deductions > 0 /\ r.net > 0
        /\ 2 * Cardinality(PresentRecords(r.user_id, r.month))
             = Cardinality(GroupRecords(r.user_id, r.month))

\* payments made within the month by students with a present record in it
ActivePaid(month) ==
    {i \in PaymentIds :
        /\ payments[i].created_at = month
        /\ \E j \in 1..Len(attendance) :
              /\ attendance[j].student_id = payments[i].student_id
              /\ attendance[j].status = "present"
              /\ attendance[j].date[1] = month}

\* the first payment of student u: of all of them, or of those of the month
FirstEver(u) ==
    {i \in PaymentIds :
        /\ payments[i].student_id = u
        /\ \A j \in PaymentIds : payments[j].student_id = u => i <= j}

FirstWithin(u, month) ==
    {i \in PaymentIds :
        /\ payments[i].student_id = u /\ payments[i].created_at = month
        /\ \A j \in PaymentIds :
              (payments[j].student_id = u /\ payments[j].created_at = month) => i <= j}

CreatedIn(month) == {u \in StudentIds : users[u].created_at = month}

Amount == [i \in PaymentIds |-> payments[i].amount]

C16_OneRecordPerStudentGroupDate ==
    \A i, j \in 1..Len(attendance) :
        ( /\ attendance[i].student_id = attendance[j].student_id
          /\ attendance[i].group_id = attendance[j].group_id
          /\ attendance[i].date = attendance[j].date ) => i = j

\* the callers create_attendance admits
MayTakeRoll(caller) ==
    Authenticated(caller) /\ users[caller].role \in {"teacher", "admin", "manager"}

\* C17: create_attendance by a teacher, admin or manager for a group and date
\* that have an attendance record answers 400 and adds no record, whatever
\* the records of the request.
C17_DuplicateDateRejected ==
    [][\A caller \in RollCallers, group_id \in GroupIds,
          records \in RollRecords, date \in RollDates :
         ( /\ MayTakeRoll(caller)
           /\ \E i \in 1..Len(attendance) :
                 attendance[i].group_id = group_id /\ attendance[i].date = date
           /\ create_attendance(caller, group_id, records, date) )
         => /\ resp'.code = 400
            /\ attendance' = attendance
      ]_vars

\* a request for a group and date on record has been refused
C17_Witness ==
    /\ resp = Response(400, "Attendance already exists")
    /\ attendance # <<>>

\* ------------------------------------------------- properties of the users
\* no two rows of the users table hold one username
UniqueUsernames ==
    \A u, v \in DOMAIN users : users[u].username = users[v].username => u = v

\* the caller passes the role check of update_user for the row
MayUpdateUser(caller, user_id) ==
    /\ Authenticated(caller)
    /\ caller = user_id \/ users[caller].role \in {"admin", "manager"}

\* C18: register, create_user, create_student, update_user and update_student,
\* asked by a caller they admit to give a user a username that a different
\* user holds, answer 400 and leave the users unchanged; no two users share a
\* username.
C18_DuplicateUsernameRejected ==
    [][/\ \A username \in NewUsernames, role \in Roles, caller \in AnyCaller :
            ( /\ UsernameTaken(username, None)
              /\ \/ register(username, role)
                 \/ /\ Authenticated(caller)
                    /\ users[caller].role \in {"admin", "manager"}
                    /\ create_user(caller, username, role) \/ create_student(caller, username) )
            => resp'.code = 400 /\ users' = users
       /\ \A username \in UpdatedUsernames \ {Unset}, caller \in AnyCaller,
             user_id \in DOMAIN users :
            ( /\ UsernameTaken(username, user_id)
              /\ \/ MayUpdateUser(caller, user_id) /\ update_user(caller, user_id, username)
                 \/ /\ Authenticated(caller)
                    /\ users[caller].role \in {"admin", "manager", "teacher"}
                    /\ IsStudent(user_id)
                    /\ update_student(caller, user_id, username) )
            => resp'.code = 400 /\ users' = users
       /\ UniqueUsernames'
      ]_vars

\* ------------------------------------------------ properties of the roles
\* callers that are no user or a student
Outsiders == {caller \in AnyCaller : ~Authenticated(caller) \/ users[caller].role = "student"}

GroupId == [u \in DOMAIN users |-> users[u].group_id]

\* C19: a request that an unauthenticated caller or a student can send never
\* creates, updates or deletes a group nor writes a salary-settings row:
\* groups, memberships and salary settings stay as they are.
\* The requests to the groups and get_salary_settings ask for no user, so
\* each of them is such a request.
C19_OutsidersChangeNothing ==
    [][( \/ \E course_id \in {1, MissingId} : create_group([course_id |-> course_id])
         \/ \E group_id \in GroupIds \cup {MissingId}, updated \in GroupBodies :
               update_group(group_id, updated)
         \/ \E group_id \in GroupIds \cup {MissingId} : delete_group(group_id)
         \/ get_salary_settings
         \/ \E caller \in Outsiders :
               update_salary_settings(caller, SettingsRow(30, 0, 10)) )
       => /\ groups' = groups
          /\ group_students' = group_students
          /\ GroupId' = GroupId
          /\ salary_settings' = salary_settings
      ]_vars

\* C20: create_payment answers 200 to admins and managers only; a teacher or a
\* student gets 403, no payment is added and no balance changes.
C20_OnlyAdminManagerPost ==
    [][\A caller \in AnyCaller, amount \in {10, 30} :
         create_payment(caller, amount, 1, None, None)
         => /\ resp'.code = 200
                => Authenticated(caller) /\ users[caller].role \in {"admin", "manager"}
            /\ (Authenticated(caller) /\ users[caller].role \in {"teacher", "student"})
                => /\ resp'.code = 403
                   /\ payments' = payments
                   /\ users' = users
      ]_vars

\* ------------------------------------------- properties of the month strings
\* C21: calculate_payroll and calculate_monthly_payments, given a month string
\* that is no valid YYYY-MM month, answer 400 and leave the payroll rows and
\* the payment rows unchanged.
C21_BadMonthRejected ==
    [][\A month \in BadMonths :
         (calculate_payroll(AdminId, month) \/ calculate_monthly_payments(AdminId, month))
         => /\ resp'.code = 400
            /\ payroll' = payroll
            /\ payments' = payments
      ]_vars

\* C22: a calculate_payroll request that raises after it has started leaves
\* the payroll table as it was before the request: no row deleted, none added.
C22_InterruptedLeavesPayroll ==
    [][\A month \in Months, phase \in InterruptPhases :
         calculate_payroll_interrupted(AdminId, month, phase) => payroll' = payroll
      ]_vars

\* ------------------------------ properties of requests served side by side
\* both requests have answered 200 for the key (a month, a payroll row)
BothDone(key) ==
    \A c \in Calls : Phase(c) = "done" /\ inflight[c][2] = key /\ inflight[c][3] = 200

\* C23: after two calculate_monthly_payments requests for one month, served
\* with any interleaving of their queries and commits, every billed
\* (student, group) has exactly one payment record of the month.
C23_RaceKeepsOneRecord ==
    \A month \in Months :
        BothDone(month)
        => \A p \in BilledPairs : Cardinality(PaymentsOf(p[1], p[2], month)) = 1

\* C30: of two pay_salary requests for one pending payroll row, served with
\* any interleaving, at most one succeeds: one payroll payment is recorded
\* for the row and the other request is answered 400.
C30_RacePaysOnce ==
    \A payroll_id \in 1..MaxPayroll :
        ( /\ \A c \in Calls : Phase(c) = "done" /\ inflight[c][2] = payroll_id
          /\ \E c \in Calls : inflight[c][3] = 200 )
        => /\ Cardinality({i \in 1..Len(payroll_payments) :
                              payroll_payments[i].payroll_id = payroll_id}) = 1
           /\ \E c \in Calls : inflight[c][3] = 400

\* ------------------------------------------- properties of paid payroll rows
\* the (user, month) pairs with a paid payroll row
PaidKeys == {<<r.user_id, r.month>> : r \in {q \in payroll : q.status = "paid"}}

\* the payroll payments recorded for the user's row of the month
PayrollPaymentsOf(u, month) ==
    {i \in 1..Len(payroll_payments) :
        \E r \in payroll : /\ r.id = payroll_payments[i].payroll_id
                           /\ r.user_id = u
                           /\ r.month = month}

\* C24: once pay_salary has marked a user's payroll row of a month paid, no
\* later calculate_payroll or pay_salary request leaves a pending row for
\* that user and month or records another payroll payment for them; no
\* (user, month) ever has more than one payroll payment.
C24_PaidIsOneWay ==
    [][ /\ \A k \in PaidKeys :
            /\ k \in PaidKeys'
            /\ ~ \E r \in payroll' :
                   r.user_id = k[1] /\ r.month = k[2] /\ r.status = "pending"
            /\ PayrollPaymentsOf(k[1], k[2])' = PayrollPaymentsOf(k[1], k[2])
        /\ \A u \in Staff, month \in Months :
               Cardinality(PayrollPaymentsOf(u, month)') <= 1
      ]_vars

\* a calculate_payroll request for the month of a paid row has been refused:
\* the row is still there, paid, with its one payroll payment
C24_Witness ==
    /\ resp = Response(500, "Internal Server Error")
    /\ \E k \in PaidKeys : Cardinality(PayrollPaymentsOf(k[1], k[2])) = 1
    /\ \E r \in payroll : r.status = "paid" /\ r.id \in ReferencedPayroll

\* ------------------------------------------ properties of mark_payment_as_paid
\* the part of a recorded total above the course price
Excess(total, course_price) ==
    IF total > course_price THEN total - course_price ELSE 0

\* C25: each mark_payment_as_paid call on a record whose course price P is
\* positive adds to the student's balance what the call adds to
\* max(T - P, 0), T being the total recorded on the payment, so that the
\* calls together credit max(T - P, 0) and an overpayment is credited once.
C25_OverpaymentCreditedOnce ==
    [][\A payment_id \in PaymentIds, amount \in InstalmentAmounts :
         ( /\ mark_payment_as_paid(AdminId, payment_id, amount)
           /\ PaymentCoursePrice(payment_id) > 0 )
         => LET s == payments[payment_id].student_id
                course_price == PaymentCoursePrice(payment_id)
            IN users'[s].balance - users[s].balance
                 = Excess(payments'[payment_id].amount, course_price)
                     - Excess(payments[payment_id].amount, course_price)
      ]_vars

\* C26: mark_payment_as_paid with a positive amount never raises the debt of
\* the payment record and never moves a paid record back to partial or
\* unpaid, whichever requests produced the record.
C26_MarkPaidNeverRaisesDebt ==
    [][\A payment_id \in PaymentIds, amount \in {10, 20} :
         mark_payment_as_paid(AdminId, payment_id, amount)
         => /\ payments'[payment_id].debt_amount <= payments[payment_id].debt_amount
            /\ payments[payment_id].status = "paid"
                  => payments'[payment_id].status = "paid"
      ]_vars

\* ------------------------------------------- properties of the payment rows
\* C27: with course prices that are not negative, every payment record that
\* create_payment, generate_monthly_debts, calculate_monthly_payments and
\* mark_payment_as_paid leave has debt_amount >= 0 and has status paid
\* exactly when its debt_amount is 0.
C27_PaidIffNoDebt ==
    \A i \in PaymentIds :
        /\ payments[i].debt_amount >= 0
        /\ payments[i].status = "paid" <=> payments[i].debt_amount = 0

\* a payment booked on no group, paid with no debt, next to a record of a
\* priced course that is part paid and still owes
C27_Witness ==
    \E i, j \in PaymentIds :
        /\ payments[i].group_id = None
        /\ payments[i].status = "paid" /\ payments[i].debt_amount = 0
        /\ payments[j].status = "partial" /\ payments[j].debt_amount > 0
        /\ payments[j].amount > 0

\* ---------------------------------------------- properties of carried debt
\* the monthly charges of the months up to the given one
ChargesUpTo(s, g, month) ==
    SumOver({m \in CarryMonths : m <= month},
            [m \in CarryMonths |-> MonthlyDue(s, g, m)])

\* the months 1, 2 and 3 have been billed, each into its one record
BilledInTurn(s, g) ==
    \A m \in CarryMonths : Cardinality(PaymentsOf(s, g, m)) = 1

\* C28: for a student who pays nothing and is billed for the consecutive
\* months 1, 2 and 3, the debt recorded for each month, the third included,
\* is at most the sum of the monthly charges up to that month: no earlier
\* month's charge is counted more than once.
C28_CarriedWithoutCompounding ==
    \A p \in BilledPairs :
        BilledInTurn(p[1], p[2])
        => \A i \in PaymentIds :
              (payments[i].student_id = p[1] /\ payments[i].group_id = p[2])
              => payments[i].debt_amount <= ChargesUpTo(p[1], p[2], payments[i].month)

\* ------------------------------------------- properties of group membership
\* C29: in every state create_group, update_group and delete_group lead to,
\* a student's group_id is g exactly when the student has a row in the
\* roster of group g; a student taken off a roster by update_group is no
\* longer among the students calculate_monthly_payments bills for g.
C29_MembershipAgrees ==
    \A s \in StudentIds, g \in GroupIds :
        /\ users[s].group_id = g <=> <<g, s>> \in group_students
        /\ s \in StudentsOf(g) => <<g, s>> \in group_students

====
